---- MODULE Spec2Model ----
(***************************************************************************)
(* The payment lifecycle controller of src/pay/components/PayProvider.tsx  *)
(* as a state machine.                                                     *)
(*                                                                         *)
(* handleSubmit is an async function: every stretch of code between two    *)
(* awaits is one atomic action.  The collaborators (connectAsync,          *)
(* fetchContracts, switchChainAsync, writeContractsAsync, the calls-status *)
(* poll and the receipt watcher) answer by separate actions whose inputs   *)
(* are drawn from small sets.  The three useEffect hooks run in Commit,    *)
(* the action that models one React render and the effects it flushes.     *)
(* A render that is due is flushed before the event loop hands the next    *)
(* collaborator response or user event to the controller, so every other   *)
(* action is guarded by ~Dirty.                                            *)
(***************************************************************************)
EXTENDS Integers, Sequences, FiniteSets, TLC

\* Bound: how many fresh attempts (handleSubmit runs that go past the two
\* side-effect-only branches) one session may start.
MaxAttempts == 3

\* Bound: how many attempts may be suspended at a collaborator call at once.
MaxInFlight == 2

\* base.id of viem/chains, the chain the payment is made on.
BaseId == 8453

Attempts == 1..MaxAttempts

OtherChainId == BaseId + 1

\* wagmi reports chainId and address as undefined while disconnected.
NoChain == 0

NoAddress == ""

Addr1 == "0xA11CE"

Addr2 == "0xB0B"

---------------------------------------------------------------------------
(* Constants of ../constants                                               *)

PAY_LIFECYCLESTATUS == [INIT |-> "init", PENDING |-> "pending", SUCCESS |-> "success", ERROR |-> "error"]

PayErrorCode == [INSUFFICIENT_BALANCE |-> "insufficient_balance", USER_REJECTED_ERROR |-> "user_rejected", UNEXPECTED_ERROR |-> "unexpected_error"]

GENERIC_ERROR_MESSAGE == "Something went wrong. Please try again."

NO_CONNECTED_ADDRESS_ERROR == "No connected address"

NO_CONTRACTS_ERROR == "Contracts are not available"

USER_REJECTED_ERROR == "Request denied."

PAY_INSUFFICIENT_BALANCE_ERROR == "User has insufficient balance"

PAY_INSUFFICIENT_BALANCE_ERROR_MESSAGE(priceInUSDC) == "You need at least " \o priceInUSDC \o " USDC to continue with payment"

---------------------------------------------------------------------------
(* Pure helpers                                                            *)

\* String.prototype.includes
Includes(s, sub) == \E i \in 1..(Len(s) - Len(sub) + 1) : SubSeq(s, i, i + Len(sub) - 1) = sub

ReceiptUrl(id) == "https://commerce.coinbase.com/pay/" \o id \o "/receipt"

FundUrl == "https://keys.coinbase.com/fund"

\* A lifecycle status: statusName and the fields statusData can hold.
\* An absent field is "" (<<>> for the receipt list).
StatusOf(name, code, error, message, receipts, charge, url) ==
    [statusName |-> name, code |-> code, error |-> error, message |-> message,
     transactionReceipts |-> receipts, chargeId |-> charge, receiptUrl |-> url]

InitStatus == StatusOf(PAY_LIFECYCLESTATUS.INIT, "", "", "", <<>>, "", "")

PendingStatus == StatusOf(PAY_LIFECYCLESTATUS.PENDING, "", "", "", <<>>, "", "")

SuccessStatus(rcpt, charge) == StatusOf(PAY_LIFECYCLESTATUS.SUCCESS, "", "", "", <<rcpt>>, charge, ReceiptUrl(charge))

ErrorStatus(code, error, message) == StatusOf(PAY_LIFECYCLESTATUS.ERROR, code, error, message, <<>>, "", "")

\* updateLifecycleStatus of ../hooks/useLifecycleStatus: the controller's one
\* update entry point; the status becomes the status it is given.
updateLifecycleStatus(prevStatus, newStatus) == newStatus

---------------------------------------------------------------------------
(* Collaborator responses                                                  *)

\* What a collaborator may reject with: an error object with its message and
\* the name of its cause.
Errors ==
    { [message |-> "Error: User denied connection request.", cause |-> ""],
      [message |-> "User rejected the request.", cause |-> "UserRejectedRequestError"],
      [message |-> "network down", cause |-> ""] }

\* isUserRejectedRequestError of ../../transaction/utils: the rejection classifier.
isUserRejectedRequestError(error) == error.cause = "UserRejectedRequestError"

\* JSON.stringify(error): the enumerable own fields of the object.  The
\* message and the cause of an Error are not enumerable.
JSONstringify(error) == "{" \o "}"

NoError == [name |-> "", message |-> ""]

HydrationError == [name |-> "Error", message |-> "charge could not be hydrated"]

ChargeIdOf(a) == "charge-" \o ToString(a)

TxIdOf(a) == "tx-" \o ToString(a)

HashOf(id) == "0xhash-" \o id

Hydration(a, contracts, hasContracts, insufficientBalance, priceInUSDC, error) ==
    [contracts |-> contracts, hasContracts |-> hasContracts, chargeId |-> ChargeIdOf(a),
     insufficientBalance |-> insufficientBalance, priceInUSDC |-> priceInUSDC, error |-> error]

\* What fetchContracts may resolve to for attempt a.  contracts is null when
\* hasContracts is FALSE.
HydrationResults(a) ==
    { Hydration(a, <<"call">>, TRUE, FALSE, "10", NoError),   \* all is well
      Hydration(a, <<"call">>, TRUE, TRUE, "", NoError),      \* balance too low, price unknown
      Hydration(a, <<"call">>, TRUE, TRUE, "10", NoError),    \* balance too low
      Hydration(a, <<>>, FALSE, TRUE, "10", NoError),         \* balance too low, no contracts
      Hydration(a, <<>>, TRUE, FALSE, "10", NoError),         \* empty call list
      Hydration(a, <<>>, FALSE, FALSE, "10", NoError),        \* no call list
      Hydration(a, <<>>, FALSE, FALSE, "", HydrationError) }  \* hydration failed

\* What connectAsync may resolve to.
ConnectResults == [accounts : {<<>>, <<Addr1, Addr2>>}, chainId : {BaseId, OtherChainId}]

---------------------------------------------------------------------------
VARIABLES
    address, chainId, isConnected, isSmartWallet,  \* useAccount, useIsWalletACoinbaseSmartWallet
    chargeId, transactionId, errorMessage,         \* useState session fields
    lifecycleStatus,                               \* useLifecycleStatus
    status, latestWrite,                           \* useWriteContracts: status of the latest mutation, and the
                                                   \* attempt whose mutation that is while it is pending
    data, receipt,                                 \* useCallsStatus, useWaitForTransactionReceipt
    rendered,                                      \* the dependencies as of the last render
    observed,                                      \* what onStatus has been called with
    statusLog,                                     \* every status taken, in order
    pc, loc, calls,                                \* per attempt: position, locals, collaborator calls made
    ev,                                            \* the step just taken
    allOk,                                         \* one attempt at most so far, and no collaborator has failed
    freshSinceError                                \* the status is ERROR and a fresh attempt started since it became so

vars == <<address, chainId, isConnected, isSmartWallet, chargeId, transactionId,
          errorMessage, lifecycleStatus, status, latestWrite, data, receipt,
          rendered, observed, statusLog, pc, loc, calls, ev, allOk,
          freshSinceError>>

accountVars == <<address, chainId, isConnected, isSmartWallet>>

watchVars == <<data, receipt>>

renderVars == <<rendered, observed>>

NoLoc == [connectedAddress |-> NoAddress, connectedChainId |-> NoChain, hyd |-> {}]

Event(kind, a, hyd, err, log, ended) ==
    [kind |-> kind, a |-> a, hyd |-> hyd, err |-> err, calls |-> log, ended |-> ended, url |-> ""]

\* A call of handleSubmit that only opens a page: window.open(url, ...).
OpenEvent(kind, url) == [Event(kind, 0, {}, {}, <<>>, FALSE) EXCEPT !.url = url]

\* The attempts that are suspended at an await of handleSubmit.
InFlight == {a \in Attempts : pc[a] \notin {"idle", "done"}}

Deps == [version |-> Len(statusLog), chargeId |-> chargeId, status |-> status, receipt |-> receipt]

\* A render is due: a dependency of an effect differs from the last render.
Dirty == Deps # rendered

Init ==
    /\ \E acct \in {<<NoAddress, NoChain, FALSE, FALSE>>, <<Addr1, BaseId, TRUE, FALSE>>} \cup
                   { <<Addr1, c, TRUE, TRUE>> : c \in {BaseId, OtherChainId} } :
          /\ address = acct[1]
          /\ chainId = acct[2]
          /\ isConnected = acct[3]
          /\ isSmartWallet = acct[4]
    /\ chargeId = ""
    /\ transactionId = ""
    /\ errorMessage = ""
    /\ lifecycleStatus = InitStatus
    /\ status = "idle"
    /\ latestWrite = 0
    /\ data = "none"
    /\ receipt = ""
    /\ rendered = [version |-> 1, chargeId |-> "", status |-> "idle", receipt |-> ""]
    /\ observed = <<InitStatus>>
    /\ statusLog = <<InitStatus>>
    /\ pc = [a \in Attempts |-> "idle"]
    /\ loc = [a \in Attempts |-> NoLoc]
    /\ calls = [a \in Attempts |-> <<>>]
    /\ ev = Event("mount", 0, {}, {}, <<>>, FALSE)
    /\ allOk = TRUE
    /\ freshSinceError = FALSE

---------------------------------------------------------------------------
(* The conditions handleSubmit branches on                                 *)

\* Mutant: the receipt branch tests for the wrong status.
IsReceiptBranchPending(st) == st.statusName = PAY_LIFECYCLESTATUS.PENDING

\* Mutant: the receipt branch is taken for every status past INIT.
IsReceiptBranchPastInit(st) == st.statusName # PAY_LIFECYCLESTATUS.INIT

IsReceiptBranch(st) == st.statusName = PAY_LIFECYCLESTATUS.SUCCESS

\* Mutant: the funding branch tests for the wrong error code.
IsFundingBranchWrongCode(st) ==
    /\ st.statusName = PAY_LIFECYCLESTATUS.ERROR
    /\ st.code = PayErrorCode.USER_REJECTED_ERROR

IsFundingBranch(st) ==
    /\ st.statusName = PAY_LIFECYCLESTATUS.ERROR
    /\ st.code = PayErrorCode.INSUFFICIENT_BALANCE

\* Mutant: the smart-wallet test is missing.
NeedsConnectDisconnectedOnly == ~isConnected

NeedsConnect == ~isConnected \/ ~isSmartWallet

\* Mutant: the chain test is inverted.
NeedsSwitchInverted(connectedChainId) == connectedChainId = BaseId

\* Mutant: the chain of the account service at the moment is tested, not the
\* chain the attempt resolved.
NeedsSwitchAccountChain(connectedChainId) == chainId # BaseId

NeedsSwitch(connectedChainId) == connectedChainId # BaseId

\* Mutant: the balance guard never fires.
InsufficientBalanceGuardOff(h) == h.insufficientBalance /\ ~h.insufficientBalance

InsufficientBalanceGuard(h) == h.insufficientBalance /\ h.priceInUSDC # ""

\* Mutant: the length test is missing.
NoContractsGuardNullOnly(h) == ~h.hasContracts

NoContractsGuard(h) == ~h.hasContracts \/ Len(h.contracts) = 0

\* Mutant: the message test is missing.
isUserRejectedErrorClassifierOnly(error) == isUserRejectedRequestError(error)

isUserRejectedError(error) ==
    \/ Includes(error.message, "User denied connection request")
    \/ isUserRejectedRequestError(error)

\* The status the catch block builds from what was thrown.
CatchStatus(error) ==
    ErrorStatus(IF isUserRejectedError(error) THEN PayErrorCode.USER_REJECTED_ERROR
                                              ELSE PayErrorCode.UNEXPECTED_ERROR,
                JSONstringify(error),
                IF isUserRejectedError(error) THEN USER_REJECTED_ERROR
                                              ELSE GENERIC_ERROR_MESSAGE)

\* Mutant: setChargeId comes after the balance guard.
StoredChargeIdAfterBalanceGuard(h) ==
    IF h.error # NoError \/ (h.insufficientBalance /\ h.priceInUSDC # "") THEN chargeId ELSE h.chargeId

\* Mutant: a hydration error clears the charge id.
StoredChargeIdClearedOnError(h) == IF h.error # NoError THEN "" ELSE h.chargeId

\* The charge id the session holds after fetchContracts resolved to h.
StoredChargeId(h) == IF h.error # NoError THEN chargeId ELSE h.chargeId

---------------------------------------------------------------------------
(* Fragments of actions                                                    *)

Transition(st) ==
    /\ lifecycleStatus' = updateLifecycleStatus(lifecycleStatus, st)
    /\ statusLog' = Append(statusLog, lifecycleStatus')

\* setErrorMessage(msg); updateLifecycleStatus(st)
SetError(msg, st) ==
    /\ errorMessage' = msg
    /\ Transition(st)

NoTransition == UNCHANGED <<errorMessage, lifecycleStatus, statusLog>>

\* handleSubmit returns: the attempt is over and its locals are gone.
Return(a, kind, hyd, err, log) ==
    /\ pc' = [pc EXCEPT ![a] = "done"]
    /\ loc' = [loc EXCEPT ![a] = NoLoc]
    /\ calls' = [calls EXCEPT ![a] = <<>>]
    /\ ev' = Event(kind, a, hyd, err, log, TRUE)

\* handleSubmit suspends at the await of collaborator call `call`.
Await(a, kind, call, newLoc, hyd, log) ==
    /\ pc' = [pc EXCEPT ![a] = call]
    /\ loc' = [loc EXCEPT ![a] = newLoc]
    /\ calls' = [calls EXCEPT ![a] = Append(log, call)]
    /\ ev' = Event(kind, a, hyd, {}, Append(log, call), FALSE)

\* freshSinceError, kept while the status is ERROR: a transition to ERROR
\* clears it, a fresh attempt sets it.
Ghost(freshStart) ==
    freshSinceError' =
        IF \/ Len(statusLog') > Len(statusLog)
           \/ lifecycleStatus'.statusName # PAY_LIFECYCLESTATUS.ERROR
        THEN FALSE
        ELSE (freshStart \/ freshSinceError)

\* Lines 168-191: the address guard, then the call of fetchContracts.
AfterResolve(a, addr, chain, log, kind) ==
    IF addr = NoAddress
    THEN /\ SetError(GENERIC_ERROR_MESSAGE,
                     ErrorStatus(PayErrorCode.UNEXPECTED_ERROR, NO_CONNECTED_ADDRESS_ERROR,
                                 NO_CONNECTED_ADDRESS_ERROR))
         /\ Return(a, kind, {}, {}, log)
    ELSE /\ NoTransition
         /\ Await(a, kind, "hydrate",
                  [connectedAddress |-> addr, connectedChainId |-> chain, hyd |-> {}], {}, log)

\* Lines 211-242: the balance guard, the call-list guard, then the call of
\* writeContractsAsync, which makes the mutation pending.
AfterSwitch(a, h, kind) ==
    IF InsufficientBalanceGuard(h)
    THEN /\ SetError(PAY_INSUFFICIENT_BALANCE_ERROR_MESSAGE(h.priceInUSDC),
                     ErrorStatus(PayErrorCode.INSUFFICIENT_BALANCE, PAY_INSUFFICIENT_BALANCE_ERROR,
                                 PAY_INSUFFICIENT_BALANCE_ERROR_MESSAGE(h.priceInUSDC)))
         /\ Return(a, kind, {h}, {}, calls[a])
         /\ UNCHANGED <<status, latestWrite>>
    ELSE IF NoContractsGuard(h)
    THEN /\ SetError(GENERIC_ERROR_MESSAGE,
                     ErrorStatus(PayErrorCode.UNEXPECTED_ERROR, NO_CONTRACTS_ERROR, NO_CONTRACTS_ERROR))
         /\ Return(a, kind, {h}, {}, calls[a])
         /\ UNCHANGED <<status, latestWrite>>
    ELSE /\ NoTransition
         /\ Await(a, kind, "write", [loc[a] EXCEPT !.hyd = {}], {h}, calls[a])
         /\ status' = "pending"
         /\ latestWrite' = a

\* Lines 243-263: the catch block.
Catch(a, error, kind) ==
    /\ SetError(CatchStatus(error).message, CatchStatus(error))
    /\ Return(a, kind, loc[a].hyd, {error}, calls[a])

---------------------------------------------------------------------------
(* handleSubmit                                                            *)

\* Lines 131-166: a call of handleSubmit, up to its first await or return.
\* The callback closes over lifecycleStatus and chargeId of the last render,
\* which are the current ones since no render is due.
Submit ==
    /\ ~Dirty
    /\ IF IsReceiptBranch(lifecycleStatus)
       THEN /\ ev' = OpenEvent("openReceipt", ReceiptUrl(chargeId))
            /\ UNCHANGED <<pc, loc, calls, errorMessage, lifecycleStatus, statusLog, allOk,
                           freshSinceError>>
       ELSE IF IsFundingBranch(lifecycleStatus)
       THEN /\ ev' = OpenEvent("openFunding", FundUrl)
            /\ UNCHANGED <<pc, loc, calls, errorMessage, lifecycleStatus, statusLog, allOk,
                           freshSinceError>>
       ELSE \E a \in Attempts :
            /\ pc[a] = "idle"
            /\ \A b \in Attempts : b < a => pc[b] # "idle"
            /\ Cardinality(InFlight) < MaxInFlight
            /\ IF NeedsConnect
               THEN /\ NoTransition
                    /\ Await(a, "submit", "connect", NoLoc, {}, <<>>)
               ELSE AfterResolve(a, address, chainId, <<>>, "submit")
            /\ allOk' = (allOk /\ a = 1 /\ (NeedsConnect \/ address # NoAddress))
            /\ Ghost(TRUE)
    /\ UNCHANGED <<accountVars, chargeId, transactionId, status, latestWrite, watchVars, renderVars>>

\* connectAsync resolves; lines 161-191.
ConnectResolve(a) ==
    /\ ~Dirty
    /\ pc[a] = "connect"
    /\ \E r \in ConnectResults :
        /\ IF r.accounts = <<>>
           THEN UNCHANGED accountVars
           ELSE /\ address' = r.accounts[1]
                /\ chainId' = r.chainId
                /\ isConnected' = TRUE
                /\ isSmartWallet' = TRUE
        /\ AfterResolve(a, IF r.accounts = <<>> THEN NoAddress ELSE r.accounts[1], r.chainId,
                        calls[a], "connectResolved")
        /\ allOk' = (allOk /\ r.accounts # <<>>)
    /\ Ghost(FALSE)
    /\ UNCHANGED <<chargeId, transactionId, status, latestWrite, watchVars, renderVars>>

\* fetchContracts resolves; lines 185-242.
HydrateResolve(a) ==
    /\ ~Dirty
    /\ pc[a] = "hydrate"
    /\ \E h \in HydrationResults(a) :
        /\ chargeId' = StoredChargeId(h)
        /\ IF h.error # NoError
           THEN /\ SetError(GENERIC_ERROR_MESSAGE,
                            ErrorStatus(PayErrorCode.UNEXPECTED_ERROR, h.error.name, h.error.message))
                /\ Return(a, "hydrateResolved", {h}, {}, calls[a])
                /\ UNCHANGED <<status, latestWrite>>
           ELSE IF NeedsSwitch(loc[a].connectedChainId)
           THEN /\ NoTransition
                /\ Await(a, "hydrateResolved", "switch", [loc[a] EXCEPT !.hyd = {h}], {h}, calls[a])
                /\ UNCHANGED <<status, latestWrite>>
           ELSE AfterSwitch(a, h, "hydrateResolved")
        /\ allOk' = (allOk /\ h.error = NoError /\ ~h.insufficientBalance
                           /\ h.hasContracts /\ h.contracts # <<>>)
    /\ Ghost(FALSE)
    /\ UNCHANGED <<accountVars, transactionId, watchVars, renderVars>>

\* switchChainAsync resolves; lines 208-242.
SwitchResolve(a) ==
    /\ ~Dirty
    /\ pc[a] = "switch"
    /\ chainId' = BaseId
    /\ \E h \in loc[a].hyd : AfterSwitch(a, h, "switchResolved")
    /\ Ghost(FALSE)
    /\ UNCHANGED <<address, isConnected, isSmartWallet, chargeId, transactionId, watchVars,
                   renderVars, allOk>>

\* writeContractsAsync resolves: onSuccess stores the id (lines 74-76), the
\* mutation is over, handleSubmit returns.  The watchers of the former id
\* have no data for the new one.
WriteResolve(a) ==
    /\ ~Dirty
    /\ pc[a] = "write"
    /\ status' = IF latestWrite = a THEN "success" ELSE status
    /\ latestWrite' = IF latestWrite = a THEN 0 ELSE latestWrite
    /\ transactionId' = TxIdOf(a)
    /\ IF transactionId' # transactionId
       THEN data' = "none" /\ receipt' = ""
       ELSE UNCHANGED watchVars
    /\ Return(a, "writeResolved", {}, {}, calls[a])
    /\ NoTransition
    /\ Ghost(FALSE)
    /\ UNCHANGED <<accountVars, chargeId, renderVars, allOk>>

\* A collaborator call of attempt a rejects and the catch block runs.
Reject(a, call) ==
    /\ ~Dirty
    /\ pc[a] = call
    /\ \E error \in Errors : Catch(a, error, call \o "Rejected")
    /\ allOk' = FALSE
    /\ Ghost(FALSE)
    /\ UNCHANGED <<accountVars, chargeId, transactionId, watchVars, renderVars>>

ConnectReject(a) == Reject(a, "connect") /\ UNCHANGED <<status, latestWrite>>

HydrateReject(a) == Reject(a, "hydrate") /\ UNCHANGED <<status, latestWrite>>

SwitchReject(a) == Reject(a, "switch") /\ UNCHANGED <<status, latestWrite>>

\* The mutation is over with status 'error' when it is the latest one.
WriteReject(a) ==
    /\ Reject(a, "write")
    /\ status' = IF latestWrite = a THEN "error" ELSE status
    /\ latestWrite' = IF latestWrite = a THEN 0 ELSE latestWrite

---------------------------------------------------------------------------
(* The watchers                                                            *)

\* Mutant: the poll goes on after CONFIRMED.
PollForever ==
    /\ ~Dirty
    /\ transactionId # ""
    /\ \E d \in {"PENDING", "CONFIRMED"} : data' = d
    /\ ev' = Event("watch", 0, {}, {}, <<>>, FALSE)
    /\ UNCHANGED <<accountVars, chargeId, transactionId, errorMessage, lifecycleStatus, status,
                   latestWrite, receipt, renderVars, statusLog, pc, loc, calls,
                   allOk, freshSinceError>>

\* useCallsStatus (lines 80-89): polls while there is an id and the last
\* answer was not CONFIRMED.
Poll ==
    /\ ~Dirty
    /\ transactionId # ""
    /\ data # "CONFIRMED"
    /\ \E d \in {"PENDING", "CONFIRMED"} : data' = d
    /\ ev' = Event("watch", 0, {}, {}, <<>>, FALSE)
    /\ UNCHANGED <<accountVars, chargeId, transactionId, errorMessage, lifecycleStatus, status,
                   latestWrite, receipt, renderVars, statusLog, pc, loc, calls,
                   allOk, freshSinceError>>

\* Line 90.
transactionHash == IF data = "CONFIRMED" THEN HashOf(transactionId) ELSE ""

\* useWaitForTransactionReceipt (lines 91-93) yields the receipt of the hash.
ReceiptArrives ==
    /\ ~Dirty
    /\ transactionHash # ""
    /\ receipt # transactionHash
    /\ receipt' = transactionHash
    /\ ev' = Event("watch", 0, {}, {}, <<>>, FALSE)
    /\ UNCHANGED <<accountVars, chargeId, transactionId, errorMessage, lifecycleStatus, status,
                   latestWrite, data, rendered, observed, statusLog, pc, loc, calls,
                   allOk, freshSinceError>>

---------------------------------------------------------------------------
(* One render and its effects                                              *)

\* Lines 96-103: onStatus gets the status of this render when it is a new one.
OnStatusEffect(prev) == IF prev.version # Len(statusLog) THEN <<lifecycleStatus>> ELSE <<>>

\* Mutant: the effect does not test for 'pending'.
PendingEffectAnyChange(prev) == IF prev.status # status THEN <<PendingStatus>> ELSE <<>>

\* Mutant: the PENDING status carries the charge id of the moment.
PendingEffectWithCharge(prev) ==
    IF prev.status # status /\ status = "pending"
    THEN <<[PendingStatus EXCEPT !.chargeId = chargeId]>>
    ELSE <<>>

\* Lines 106-113.
PendingEffect(prev) ==
    IF prev.status # status /\ status = "pending" THEN <<PendingStatus>> ELSE <<>>

\* Mutant: the receipt makes SUCCESS only of a PENDING status.
ReceiptEffectWhenPending(prev) ==
    IF /\ (prev.chargeId # chargeId \/ prev.receipt # receipt) /\ receipt # ""
       /\ lifecycleStatus.statusName = PAY_LIFECYCLESTATUS.PENDING
    THEN <<SuccessStatus(receipt, chargeId)>>
    ELSE <<>>

\* Lines 116-128.
ReceiptEffect(prev) ==
    IF (prev.chargeId # chargeId \/ prev.receipt # receipt) /\ receipt # ""
    THEN <<SuccessStatus(receipt, chargeId)>>
    ELSE <<>>

RECURSIVE ApplyUpdates(_, _)
\* The statuses taken when the queued updates are applied to st in order.
ApplyUpdates(st, updates) ==
    IF updates = <<>> THEN <<>>
    ELSE <<updateLifecycleStatus(st, Head(updates))>>
         \o ApplyUpdates(updateLifecycleStatus(st, Head(updates)), Tail(updates))

Commit ==
    /\ Dirty
    /\ rendered' = Deps
    /\ observed' = observed \o OnStatusEffect(rendered)
    /\ LET taken == ApplyUpdates(lifecycleStatus, PendingEffect(rendered) \o ReceiptEffect(rendered))
       IN /\ statusLog' = statusLog \o taken
          /\ lifecycleStatus' = IF taken = <<>> THEN lifecycleStatus ELSE taken[Len(taken)]
    /\ ev' = Event("commit", 0, {}, {}, <<>>, FALSE)
    /\ Ghost(FALSE)
    /\ UNCHANGED <<accountVars, chargeId, transactionId, errorMessage, status, latestWrite,
                   watchVars, pc, loc, calls, allOk>>

---------------------------------------------------------------------------
Next ==
    \/ Submit
    \/ \E a \in Attempts : ConnectResolve(a)
    \/ \E a \in Attempts : ConnectReject(a)
    \/ \E a \in Attempts : HydrateResolve(a)
    \/ \E a \in Attempts : HydrateReject(a)
    \/ \E a \in Attempts : SwitchResolve(a)
    \/ \E a \in Attempts : SwitchReject(a)
    \/ \E a \in Attempts : WriteResolve(a)
    \/ \E a \in Attempts : WriteReject(a)
    \/ Poll
    \/ ReceiptArrives
    \/ Commit

Spec == Init /\ [][Next]_vars

\* The poll of the current transactionId is answered CONFIRMED.
PollConfirmed == Poll /\ data' = "CONFIRMED"

\* Every collaborator call of an attempt returns or rejects in the end, a
\* render that is due is made, the poll reports CONFIRMED in the end and the
\* receipt watcher yields the receipt of the hash it was given.
Fairness ==
    /\ \A a \in Attempts :
          /\ WF_vars(ConnectResolve(a) \/ ConnectReject(a))
          /\ WF_vars(HydrateResolve(a) \/ HydrateReject(a))
          /\ WF_vars(SwitchResolve(a) \/ SwitchReject(a))
          /\ WF_vars(WriteResolve(a) \/ WriteReject(a))
    /\ WF_vars(Commit)
    /\ WF_vars(PollConfirmed)
    /\ WF_vars(ReceiptArrives)

FairSpec == Spec /\ Fairness

---------------------------------------------------------------------------
(* Properties                                                              *)

StatusNames(log) == [i \in 1..Len(log) |-> log[i].statusName]

HappySequence == <<PAY_LIFECYCLESTATUS.INIT, PAY_LIFECYCLESTATUS.PENDING, PAY_LIFECYCLESTATUS.SUCCESS>>

OnlyOneAttempt == \A a \in Attempts : a > 1 => pc[a] = "idle"

SubmitKinds == {"submit", "openReceipt", "openFunding"}

\* What a call of handleSubmit that only opens a page leaves alone.
submitFrame == <<accountVars, chargeId, transactionId, errorMessage, lifecycleStatus, statusLog,
                 status, latestWrite, watchVars, renderVars, pc, loc, calls>>

\* C1: with one submit() and every collaborator answering successfully, the
\* statuses taken are INIT, PENDING, SUCCESS in that order and nothing else,
\* and the SUCCESS payload has a non-empty receipt list and a receipt URL
\* that contains the stored charge id.
C1_HappyPath ==
    (allOk /\ OnlyOneAttempt) =>
        /\ \E n \in 1..3 : StatusNames(statusLog) = SubSeq(HappySequence, 1, n)
        /\ lifecycleStatus.statusName = PAY_LIFECYCLESTATUS.SUCCESS =>
              /\ lifecycleStatus.transactionReceipts # <<>>
              /\ chargeId # ""
              /\ Includes(lifecycleStatus.receiptUrl, chargeId)

C1_Witness ==
    /\ allOk /\ OnlyOneAttempt
    /\ pc[1] = "done"
    /\ StatusNames(statusLog) = HappySequence
    /\ StatusNames(observed) = HappySequence

C3_SuccessSubmit ==
    [][ (ev'.kind \in SubmitKinds /\ lifecycleStatus.statusName = PAY_LIFECYCLESTATUS.SUCCESS) =>
            /\ ev' = OpenEvent("openReceipt", "https://commerce.coinbase.com/pay/" \o chargeId \o "/receipt")
            /\ UNCHANGED submitFrame
      ]_vars

C3_Witness ==
    /\ ev.kind = "openReceipt"
    /\ lifecycleStatus.statusName = PAY_LIFECYCLESTATUS.SUCCESS
    /\ ev.url = lifecycleStatus.receiptUrl

RejectedKinds == {"connectRejected", "hydrateRejected", "switchRejected", "writeRejected"}

\* C4: a rejection of connect, hydrate, switchChain or batch-submit ends the
\* attempt by a normal return with the status ERROR; the code is
\* USER_REJECTED_ERROR with the user-rejected message exactly when the message
\* contains "User denied connection request" or the classifier accepts the
\* error, and UNEXPECTED_ERROR with the generic message otherwise.
C4_Catch ==
    /\ ev.kind \in RejectedKinds => ev.err # {}
    /\ \A e \in ev.err :
        /\ ev.kind \in RejectedKinds
        /\ ev.ended /\ pc[ev.a] = "done"
        /\ lifecycleStatus.statusName = PAY_LIFECYCLESTATUS.ERROR
        /\ errorMessage = lifecycleStatus.message
        /\ IF Includes(e.message, "User denied connection request") \/ isUserRejectedRequestError(e)
           THEN /\ lifecycleStatus.code = PayErrorCode.USER_REJECTED_ERROR
                /\ lifecycleStatus.message = USER_REJECTED_ERROR
           ELSE /\ lifecycleStatus.code = PayErrorCode.UNEXPECTED_ERROR
                /\ lifecycleStatus.message = GENERIC_ERROR_MESSAGE

C4_Witness ==
    /\ ev.kind = "connectRejected"
    /\ \E e \in ev.err : Includes(e.message, "User denied connection request") /\ ~isUserRejectedRequestError(e)
    /\ lifecycleStatus.statusName = PAY_LIFECYCLESTATUS.ERROR
    /\ lifecycleStatus.code = PayErrorCode.USER_REJECTED_ERROR

NoContractsStatus == ErrorStatus(PayErrorCode.UNEXPECTED_ERROR, NO_CONTRACTS_ERROR, NO_CONTRACTS_ERROR)

\* Statement of C5 as written: whenever hydration returned an empty or absent
\* contracts list, the attempt ends in ERROR / UNEXPECTED_ERROR with the
\* "no contracts" message and without a batch submission.
C5_Original ==
    \A h \in ev.hyd :
        (ev.ended /\ (~h.hasContracts \/ h.contracts = <<>>)) =>
            /\ lifecycleStatus = NoContractsStatus
            /\ "write" \notin {ev.calls[i] : i \in 1..Len(ev.calls)}

\* C5 (amended): when hydration returned an empty or absent contracts list the
\* batch-submission service is never called in that attempt; and when moreover
\* hydration reported no error, no call of the attempt rejected and it did not
\* report insufficientBalance with a price, the attempt ends in ERROR /
\* UNEXPECTED_ERROR with the "no contracts" message.
C5_NoContracts ==
    \A h \in ev.hyd :
        (~h.hasContracts \/ h.contracts = <<>>) =>
            /\ "write" \notin {ev.calls[i] : i \in 1..Len(ev.calls)}
            /\ ~ev.ended => pc[ev.a] = "switch"
            /\ (/\ ev.ended /\ ev.err = {} /\ h.error = NoError
                /\ ~(h.insufficientBalance /\ h.priceInUSDC # "")) =>
                   /\ lifecycleStatus = NoContractsStatus
                   /\ errorMessage = GENERIC_ERROR_MESSAGE

C5_Witness ==
    /\ ev.ended
    /\ \E h \in ev.hyd : h.hasContracts /\ h.contracts = <<>> /\ h.error = NoError
    /\ lifecycleStatus = NoContractsStatus

\* Statement of C6: once the status is SUCCESS no event makes it anything else.
C6_Original ==
    [][ lifecycleStatus.statusName = PAY_LIFECYCLESTATUS.SUCCESS =>
            lifecycleStatus'.statusName = PAY_LIFECYCLESTATUS.SUCCESS ]_vars

\* Statement of C7: once the status is ERROR it is replaced by PENDING or
\* SUCCESS only when a submit() was invoked after that ERROR was reached.
C7_Original ==
    [][ (/\ lifecycleStatus.statusName = PAY_LIFECYCLESTATUS.ERROR
         /\ lifecycleStatus'.statusName # PAY_LIFECYCLESTATUS.ERROR) => freshSinceError ]_vars

CallOrder == <<"connect", "hydrate", "switch", "write">>

Position(call) == CHOOSE i \in 1..Len(CallOrder) : CallOrder[i] = call

\* The calls of log are collaborator calls in the order of CallOrder, none twice.
InCallOrder(log) ==
    /\ \A i \in 1..Len(log) : \E k \in 1..Len(CallOrder) : CallOrder[k] = log[i]
    /\ \A i, j \in 1..Len(log) : i < j => Position(log[i]) < Position(log[j])

Made(log) == {log[i] : i \in 1..Len(log)}

\* C8: in one attempt the collaborator calls are made in the order connect,
\* hydrate, switchChain, batch-submit, each at most once; a call is made only
\* in the step in which the call before it returned; batch-submit comes after
\* hydrate and after the chain switch when the connected chain is not base.
C8_CallOrder ==
    [][ \A a \in Attempts :
          /\ InCallOrder(calls'[a])
          /\ (pc'[a] \notin {"idle", "done"}) =>
                /\ calls'[a] # <<>>
                /\ pc'[a] = calls'[a][Len(calls'[a])]
          /\ "write" \in Made(calls'[a]) =>
                /\ "hydrate" \in Made(calls'[a])
                /\ loc'[a].connectedChainId # BaseId => "switch" \in Made(calls'[a])
          /\ (calls'[a] # calls[a] /\ calls'[a] # <<>>) =>
                /\ calls'[a] = Append(calls[a], pc'[a])
                /\ calls[a] # <<>> => ev'.kind = calls[a][Len(calls[a])] \o "Resolved"
      ]_vars

C8_Witness ==
    \E a \in Attempts : pc[a] = "write" /\ calls[a] = CallOrder

\* Statement of C9: onStatus has been called with every status taken up to
\* the last render, in the order taken.
C9_Original == observed = SubSeq(statusLog, 1, rendered.version)

\* Statement of C10 as written: when fetchContracts has just resolved, the
\* charge id it returned is the session chargeId.
C10_Original ==
    \A h \in ev.hyd : ev.kind = "hydrateResolved" => chargeId = h.chargeId

\* C10 (amended): when fetchContracts has just resolved without an error,
\* the charge id it returned is the session chargeId, whatever the attempt
\* does next (insufficient balance, empty call list, chain switch).
C10_ChargeStored ==
    \A h \in ev.hyd : (ev.kind = "hydrateResolved" /\ h.error = NoError) => chargeId = h.chargeId

C10_Witness ==
    /\ ev.kind = "hydrateResolved"
    /\ ev.ended
    /\ \E h \in ev.hyd : h.error = NoError /\ h.insufficientBalance /\ chargeId = h.chargeId
    /\ \E a \in Attempts : a > 1 /\ chargeId = ChargeIdOf(a)

Suspended(a) == pc[a] \in {"connect", "hydrate", "switch", "write"}

NoErrorOrSuccessYet ==
    \A i \in 1..Len(statusLog) :
        statusLog[i].statusName \in {PAY_LIFECYCLESTATUS.INIT, PAY_LIFECYCLESTATUS.PENDING}

\* C11: handleSubmit takes no lock.  While the first attempt is the only one
\* and is suspended at a collaborator call, the status is INIT or PENDING; a
\* submit() made while the status is INIT or PENDING starts a fresh attempt
\* of its own whatever the other attempts are doing, and leaves them as they
\* are; and the PENDING transition of the pending effect is made while the
\* attempt that called writeContractsAsync is still suspended at that call.
C11_NoMutualExclusion ==
    [][ /\ (Suspended(1) /\ \A b \in Attempts : b > 1 => pc[b] = "idle") =>
              lifecycleStatus.statusName \in {PAY_LIFECYCLESTATUS.INIT, PAY_LIFECYCLESTATUS.PENDING}
        /\ (/\ ev'.kind \in SubmitKinds
            /\ ev' # ev
            /\ lifecycleStatus.statusName \in {PAY_LIFECYCLESTATUS.INIT, PAY_LIFECYCLESTATUS.PENDING}) =>
               /\ ev'.kind = "submit"
               /\ pc[ev'.a] = "idle" /\ pc'[ev'.a] # "idle"
               /\ \A b \in Attempts \ {ev'.a} :
                     pc'[b] = pc[b] /\ loc'[b] = loc[b] /\ calls'[b] = calls[b]
        /\ (/\ Len(statusLog') > Len(statusLog)
            /\ lifecycleStatus' = PendingStatus) =>
               /\ ev'.kind = "commit"
               /\ \E a \in Attempts : pc[a] = "write" /\ pc'[a] = "write"
      ]_vars

\* Two batch submissions in flight at once, with no ERROR or SUCCESS so far,
\* the status being PENDING.
C11_Witness ==
    /\ pc[1] = "write" /\ pc[2] = "write"
    /\ lifecycleStatus = PendingStatus
    /\ NoErrorOrSuccessYet

\* The mutation status is reported as 'pending' to the render that is due.
PendingReported == rendered.status # status /\ status = "pending"

\* C12: a 'pending' report of the batch-submission service that comes while
\* the status is already PENDING makes the status PENDING again, the same
\* value, and leaves chargeId, transactionId and errorMessage as they are;
\* the status of the whole render is unchanged unless the same render also
\* hands a receipt to the receipt effect.
C12_PendingIdempotent ==
    [][ (/\ ev'.kind = "commit"
         /\ lifecycleStatus.statusName = PAY_LIFECYCLESTATUS.PENDING
         /\ PendingReported) =>
            /\ Len(statusLog') > Len(statusLog)
            /\ statusLog'[Len(statusLog) + 1] = lifecycleStatus
            /\ UNCHANGED <<chargeId, transactionId, errorMessage>>
            /\ receipt = "" => (lifecycleStatus' = lifecycleStatus
                                /\ statusLog' = Append(statusLog, lifecycleStatus))
      ]_vars

\* The pending transition has just been applied a second time in a row.
C12_Witness ==
    /\ ev.kind = "commit"
    /\ Len(statusLog) > rendered.version
    /\ Len(statusLog) >= 3
    /\ statusLog[Len(statusLog)].statusName = PAY_LIFECYCLESTATUS.PENDING
    /\ statusLog[Len(statusLog) - 1] = statusLog[Len(statusLog)]
    /\ lifecycleStatus = statusLog[Len(statusLog)]

\* Statement of C13: whenever the status is SUCCESS and no render is due, its
\* payload has a receipt, the session chargeId and the receipt URL of that
\* chargeId, which is the URL submit() opens.
C13_Original ==
    (lifecycleStatus.statusName = PAY_LIFECYCLESTATUS.SUCCESS /\ ~Dirty) =>
        /\ lifecycleStatus.transactionReceipts # <<>>
        /\ lifecycleStatus.chargeId = chargeId
        /\ lifecycleStatus.receiptUrl = ReceiptUrl(chargeId)

\* Statement of C14: in every SUCCESS status the charge id and the receipt
\* come from one and the same attempt.
C14_Original ==
    lifecycleStatus.statusName = PAY_LIFECYCLESTATUS.SUCCESS =>
        \E a \in Attempts :
            /\ lifecycleStatus.chargeId = ChargeIdOf(a)
            /\ lifecycleStatus.receiptUrl = ReceiptUrl(ChargeIdOf(a))
            /\ lifecycleStatus.transactionReceipts = <<HashOf(TxIdOf(a))>>

\* C15: a step of an attempt that makes the status ERROR is the last step of
\* that attempt; an attempt that is over makes no call and never runs again,
\* and an attempt starts only in a call of handleSubmit; writeContractsAsync
\* is called only by an attempt that resolved an address and whose hydration
\* reported no error, did not report insufficientBalance with a price, and
\* returned a non-empty call list.
C15_FailuresTerminal ==
    [][ /\ (/\ ev'.a \in Attempts
            /\ Len(statusLog') > Len(statusLog)
            /\ lifecycleStatus'.statusName = PAY_LIFECYCLESTATUS.ERROR) =>
               /\ ev'.ended
               /\ pc'[ev'.a] = "done"
               /\ "write" \notin Made(ev'.calls) \/ ev'.kind = "writeRejected"
        /\ \A a \in Attempts :
              /\ pc[a] = "done" => (pc'[a] = "done" /\ calls'[a] = calls[a])
              /\ (pc[a] = "idle" /\ pc'[a] # "idle") => (ev'.kind = "submit" /\ ev'.a = a)
              /\ (pc[a] # "write" /\ pc'[a] = "write") =>
                    /\ ev'.a = a
                    /\ loc'[a].connectedAddress # NoAddress
                    /\ ev'.hyd # {}
                    /\ \A h \in ev'.hyd :
                          /\ h.error = NoError
                          /\ ~(h.insufficientBalance /\ h.priceInUSDC # "")
                          /\ h.hasContracts /\ Len(h.contracts) > 0
      ]_vars

\* An attempt that ended in ERROR on a hydration error is over, while the
\* session goes on with a later event.
C15_Witness ==
    /\ pc[1] = "done"
    /\ lifecycleStatus.statusName = PAY_LIFECYCLESTATUS.ERROR
    /\ lifecycleStatus.error = HydrationError.name
    /\ lifecycleStatus.message = HydrationError.message
    /\ transactionId = ""
    /\ ev.kind = "commit"

\* C16: the connected chain of an attempt is the chain of the account
\* service when the wallet is a connected smart wallet and the chain connect
\* returned otherwise; the attempt calls switchChainAsync exactly when
\* fetchContracts resolved without an error and that chain is not base, the
\* call makes no status transition, and the balance guard, the call-list
\* guard and the batch submission come only in the step in which the switch
\* resolved.
C16_ChainSwitch ==
    [][ \A a \in Attempts :
          /\ (pc[a] # "hydrate" /\ pc'[a] = "hydrate") =>
                /\ loc'[a].connectedChainId = chainId'
                /\ loc'[a].connectedAddress # NoAddress
                /\ IF "connect" \in Made(calls[a])
                   THEN ev'.kind = "connectResolved"
                   ELSE /\ ev'.kind = "submit"
                        /\ isConnected /\ isSmartWallet
                        /\ chainId' = chainId
          /\ (ev'.kind = "hydrateResolved" /\ ev'.a = a) =>
                /\ ev'.hyd # {}
                /\ \A h \in ev'.hyd :
                      (pc'[a] = "switch") <=>
                          (h.error = NoError /\ loc[a].connectedChainId # BaseId)
          /\ (pc[a] # "switch" /\ pc'[a] = "switch") =>
                /\ ev'.kind = "hydrateResolved" /\ ev'.a = a
                /\ loc[a].connectedAddress # NoAddress
                /\ calls'[a] = Append(calls[a], "switch")
                /\ "write" \notin Made(calls'[a])
                /\ UNCHANGED <<lifecycleStatus, statusLog, errorMessage, status>>
          /\ (pc[a] = "switch" /\ pc'[a] # "switch") =>
                /\ ev'.kind \in {"switchResolved", "switchRejected"}
                /\ ev'.a = a
          /\ (ev'.kind = "switchResolved" /\ ev'.a = a /\ ~ev'.ended) =>
                /\ pc'[a] = "write"
                /\ UNCHANGED <<lifecycleStatus, statusLog, errorMessage>>
      ]_vars

\* An attempt that connected to a chain other than base waits for the
\* switch, with a hydration that reports insufficient balance; no status
\* has been taken yet.
C16_Witness ==
    \E a \in Attempts :
        /\ pc[a] = "switch"
        /\ calls[a] = <<"connect", "hydrate", "switch">>
        /\ loc[a].connectedChainId = OtherChainId
        /\ \E h \in loc[a].hyd : h.insufficientBalance /\ h.priceInUSDC # ""
        /\ statusLog = <<InitStatus>>

NoAddressStatus ==
    ErrorStatus(PayErrorCode.UNEXPECTED_ERROR, NO_CONNECTED_ADDRESS_ERROR, NO_CONNECTED_ADDRESS_ERROR)

FirstAccounts == {r.accounts[1] : r \in {c \in ConnectResults : c.accounts # <<>>}}

\* C17: a fresh attempt calls connectAsync exactly when the wallet is not
\* connected or is not a smart wallet, and only as its first call; after
\* connect the attempt goes on with the first account and the chain connect
\* returned, without connect with the address and chain of the account
\* service; when no address resolved the attempt ends at once with ERROR /
\* UNEXPECTED_ERROR and the "no connected address" message, having called
\* none of fetchContracts, switchChainAsync, writeContractsAsync.
C17_Connect ==
    [][ \A a \in Attempts :
          /\ (ev'.kind = "submit" /\ ev'.a = a /\ ev' # ev) =>
                /\ (pc'[a] = "connect") <=> (~isConnected \/ ~isSmartWallet)
                /\ pc'[a] = "connect" => (calls'[a] = <<"connect">> /\ statusLog' = statusLog)
                /\ pc'[a] = "hydrate" =>
                      /\ calls'[a] = <<"hydrate">>
                      /\ loc'[a].connectedAddress = address
                      /\ loc'[a].connectedChainId = chainId
                /\ ev'.ended <=> ((isConnected /\ isSmartWallet) /\ address = NoAddress)
          /\ (pc[a] # "connect" /\ pc'[a] = "connect") => (ev'.kind = "submit" /\ ev'.a = a)
          /\ (ev'.kind = "connectResolved" /\ ev'.a = a) =>
                /\ pc[a] = "connect"
                /\ IF ev'.ended
                   THEN UNCHANGED <<address, chainId>>
                   ELSE /\ pc'[a] = "hydrate"
                        /\ calls'[a] = <<"connect", "hydrate">>
                        /\ loc'[a].connectedAddress \in FirstAccounts
                        /\ loc'[a].connectedAddress = address'
                        /\ loc'[a].connectedChainId = chainId'
          /\ (ev'.kind \in {"submit", "connectResolved"} /\ ev'.a = a /\ ev'.ended) =>
                /\ pc'[a] = "done"
                /\ lifecycleStatus' = NoAddressStatus
                /\ statusLog' = Append(statusLog, NoAddressStatus)
                /\ errorMessage' = GENERIC_ERROR_MESSAGE
                /\ Made(ev'.calls) \subseteq {"connect"}
          /\ (pc'[a] \in {"hydrate", "switch", "write"}) => loc'[a].connectedAddress # NoAddress
      ]_vars

\* connect returned no account and the attempt ended with the
\* "no connected address" error.
C17_Witness ==
    /\ ev.kind = "connectResolved"
    /\ ev.ended
    /\ ev.calls = <<"connect">>
    /\ lifecycleStatus = NoAddressStatus
    /\ address = NoAddress

\* C18: chargeId, transactionId and errorMessage never go back to empty;
\* chargeId changes only in the step in which fetchContracts of an attempt
\* resolved, to the charge id of that attempt, and transactionId only in the
\* step in which writeContractsAsync of an attempt resolved, to the id of
\* that submission; an attempt passes each of these steps at most once, and
\* a step that ends an attempt in ERROR leaves transactionId as it was.
C18_SessionFields ==
    [][ /\ chargeId # "" => chargeId' # ""
        /\ transactionId # "" => transactionId' # ""
        /\ errorMessage # "" => errorMessage' # ""
        /\ chargeId' # chargeId =>
              /\ ev'.kind = "hydrateResolved"
              /\ pc[ev'.a] = "hydrate" /\ pc'[ev'.a] # "hydrate"
              /\ chargeId' = ChargeIdOf(ev'.a)
        /\ transactionId' # transactionId =>
              /\ ev'.kind = "writeResolved"
              /\ pc[ev'.a] = "write" /\ pc'[ev'.a] = "done"
              /\ transactionId' = TxIdOf(ev'.a)
              /\ statusLog' = statusLog
        /\ \A a \in Attempts :
              /\ pc'[a] = "idle" => pc[a] = "idle"
              /\ pc'[a] = "hydrate" => pc[a] \in {"idle", "connect", "hydrate"}
              /\ pc'[a] = "write" => pc[a] \in {"hydrate", "switch", "write"}
        /\ (/\ ev'.a \in Attempts /\ ev'.ended
            /\ Len(statusLog') > Len(statusLog)
            /\ lifecycleStatus'.statusName = PAY_LIFECYCLESTATUS.ERROR) =>
               transactionId' = transactionId
      ]_vars

\* The batch submission of a later attempt has just been rejected: the
\* session still holds the submission id of attempt 1 and holds the charge
\* id of another attempt.
C18_Witness ==
    /\ ev.kind = "writeRejected"
    /\ ev.a # 1
    /\ transactionId = TxIdOf(1)
    /\ chargeId # "" /\ chargeId # ChargeIdOf(1)
    /\ errorMessage # ""

\* C19: the calls-status poll answers only while transactionId is set and
\* no CONFIRMED answer has been seen for it; a CONFIRMED answer stays until
\* transactionId changes, and a new id starts without an answer; the receipt
\* watcher yields a receipt only for the hash of the CONFIRMED answer of the
\* current transactionId.
C19_Polling ==
    [][ /\ (ev'.kind = "watch" /\ receipt' = receipt) =>
              /\ transactionId # ""
              /\ data # "CONFIRMED"
              /\ data' \in {"PENDING", "CONFIRMED"}
              /\ transactionId' = transactionId
        /\ data' # data =>
              \/ ev'.kind = "watch"
              \/ (transactionId' # transactionId /\ data' = "none")
        /\ (data = "CONFIRMED" /\ transactionId' = transactionId) => data' = "CONFIRMED"
        /\ transactionId' # transactionId => (data' = "none" /\ receipt' = "")
        /\ transactionId' = "" => data' = "none"
        /\ (receipt' # receipt /\ receipt' # "") =>
              /\ ev'.kind = "watch"
              /\ data = "CONFIRMED"
              /\ receipt' = HashOf(transactionId)
      ]_vars

\* The poll of a second submission id has been answered CONFIRMED and its
\* receipt has arrived, after the receipt of the first id was obtained.
C19_Witness ==
    /\ transactionId # "" /\ transactionId # TxIdOf(1)
    /\ data = "CONFIRMED"
    /\ receipt = HashOf(transactionId)
    /\ \E i \in 1..Len(statusLog) : statusLog[i].transactionReceipts = <<HashOf(TxIdOf(1))>>

\* C20: under FairSpec, whenever attempts are suspended at a collaborator
\* call a later state has none suspended, and an attempt that is no longer
\* suspended is over; the step that ends an attempt either makes the status
\* ERROR or stores the submission id of the attempt; and once a submission
\* id has been stored the status becomes SUCCESS in the end.
C20_Termination ==
    /\ (InFlight # {}) ~> (InFlight = {})
    /\ [][ \A a \in Attempts :
            /\ (a \in InFlight /\ pc'[a] # pc[a]) => pc'[a] \in {"hydrate", "switch", "write", "done"}
            /\ (pc[a] # "done" /\ pc'[a] = "done") =>
                  \/ /\ Len(statusLog') > Len(statusLog)
                     /\ lifecycleStatus'.statusName = PAY_LIFECYCLESTATUS.ERROR
                     /\ transactionId' = transactionId
                  \/ /\ ev'.kind = "writeResolved"
                     /\ transactionId' = TxIdOf(a)
          ]_vars
    /\ (ev.kind = "writeResolved") ~> (lifecycleStatus.statusName = PAY_LIFECYCLESTATUS.SUCCESS)

\* Every attempt is over and the status is SUCCESS with the receipt of the
\* submission id stored last.
C20_Witness ==
    /\ \A a \in Attempts : pc[a] = "done"
    /\ lifecycleStatus.statusName = PAY_LIFECYCLESTATUS.SUCCESS
    /\ transactionId # ""
    /\ lifecycleStatus.transactionReceipts = <<HashOf(transactionId)>>

====
